---- MODULE Spec2Model ----
(***************************************************************************)
(* Model of the tracee stack allocator, src/register/mem.rs:               *)
(* PtraceMemoryAllocator::alloc_mem for Registers.                         *)
(*                                                                         *)
(* The machine word is WordBits wide: Word is the unsigned integer of      *)
(* that width, isize the two's complement signed one.  Every arithmetic    *)
(* operation of the code is modelled with its width: an operation whose    *)
(* mathematical result leaves the type panics in a build with overflow     *)
(* checks ("debug") and wraps in a build without them ("release").         *)
(***************************************************************************)
EXTENDS Integers, Sequences, FiniteSets

\* Width of a pointer-sized word in the model (isize / usize / Word).
WordBits == 20

\* Longest sequence of alloc_mem calls explored on one register set.
MaxCalls == 3

\* RED_ZONE_SIZE for target_os = "linux", target_arch = "x86_64".
RED_ZONE_SIZE_X86_64 == 128

\* RED_ZONE_SIZE for target_os = "linux", any other target_arch.
RED_ZONE_SIZE_OTHER == 0

TwoToW == 2 ^ WordBits

\* std::usize::MAX as Word
USIZE_MAX == TwoToW - 1

\* isize::MAX and isize::MIN
ISIZE_MAX == (TwoToW \div 2) - 1

ISIZE_MIN == 0 - (TwoToW \div 2)

Archs == {"x86_64", "other"}

\* "debug": overflow checks on (arithmetic overflow panics);
\* "release": overflow checks off (arithmetic overflow wraps).
Builds == {"debug", "release"}

RED_ZONE_SIZE(arch) ==
    IF arch = "x86_64" THEN RED_ZONE_SIZE_X86_64 ELSE RED_ZONE_SIZE_OTHER

\* Two's complement wrap of a mathematical integer into isize.
WrapISize(x) == ((x - ISIZE_MIN) % TwoToW) + ISIZE_MIN

\* `x as Word` for x: isize (reinterpretation of the bit pattern).
AsWord(x) == x % TwoToW

\* isize addition a + b: value after wrapping, and whether it overflowed.
ISizeAdd(a, b) ==
    [val |-> WrapISize(a + b),
     overflow |-> (a + b > ISIZE_MAX) \/ (a + b < ISIZE_MIN)]

\* isize negation -a.
ISizeNeg(a) ==
    [val |-> WrapISize(0 - a),
     overflow |-> (0 - a > ISIZE_MAX) \/ (0 - a < ISIZE_MIN)]

\* Word subtraction a - b.
WordSub(a, b) ==
    [val |-> (a - b) % TwoToW, overflow |-> a - b < 0]

\* Word addition a + b.
WordAdd(a, b) ==
    [val |-> (a + b) % TwoToW, overflow |-> a + b > USIZE_MAX]

BadAddressMsg == "when allocating memory, under/overflow detected"

\* The values an absent result takes in a call record.
NoWord == 0 - 1

NoSize == ISIZE_MIN - 1

\* Mutant: the red zone is added on every call.
red_zone_applies_always(stack_pointer, original_stack_pointer) == TRUE

\* Mutant: the comparison is inverted.
red_zone_applies_inverted(stack_pointer, original_stack_pointer) ==
    stack_pointer # original_stack_pointer

\* The scrutinee of the match computing corrected_size.
red_zone_applies(stack_pointer, original_stack_pointer) ==
    stack_pointer = original_stack_pointer

\* let corrected_size = match ... { false => size, true => size + RED_ZONE_SIZE }
corrected_size_of(applies, size, rz) ==
    IF applies THEN ISizeAdd(size, rz) ELSE [val |-> size, overflow |-> FALSE]

\* Mutant: the underflow test is on >= 0 instead of > 0.
underflow_guard_ge(stack_pointer, c) ==
    c >= 0 /\ stack_pointer <= AsWord(c)

\* corrected_size > 0 && self.stack_pointer <= corrected_size as Word
underflow_guard(stack_pointer, c) ==
    c > 0 /\ stack_pointer <= AsWord(c)

\* self.stack_pointer >= (USIZE_MAX as Word) - (-corrected_size as Word),
\* given the value neg of -corrected_size.
overflow_guard(stack_pointer, neg) ==
    stack_pointer >= WordSub(USIZE_MAX, AsWord(neg)).val

\* Mutant: the negative branch subtracts instead of adding.
new_stack_pointer_sub(stack_pointer, c) ==
    IF c > 0
    THEN WordSub(stack_pointer, AsWord(c))
    ELSE WordSub(stack_pointer, AsWord(ISizeNeg(c).val))

\* match corrected_size > 0 { true => sp - (c as Word), false => sp + (-c as Word) }
new_stack_pointer(stack_pointer, c) ==
    IF c > 0
    THEN WordSub(stack_pointer, AsWord(c))
    ELSE WordAdd(stack_pointer, AsWord(ISizeNeg(c).val))

Outcome(res, r, ret, c, applies, ovf) ==
    [result |-> res, regs |-> r, ret |-> ret, corrected |-> c,
     rz_added |-> applies, overflow |-> ovf]

\* Mutant: the stack pointer is moved before the guard is evaluated.
alloc_mem_mutate_first(r, size, build, rz) ==
    LET sp == r.stack_pointer
        applies == red_zone_applies(sp, r.original_stack_pointer)
        c == corrected_size_of(applies, size, rz).val
        moved == [r EXCEPT !.stack_pointer = new_stack_pointer(sp, c).val]
    IN  IF underflow_guard(sp, c)
           \/ (c < 0 /\ overflow_guard(sp, ISizeNeg(c).val))
        THEN Outcome("bad_address", moved, NoWord, c, applies, FALSE)
        ELSE Outcome("ok", moved, moved.stack_pointer, c, applies, FALSE)

\* Mutant: a successful call also overwrites the trap-entry snapshot.
alloc_mem_moves_original(r, size, build, rz) ==
    LET sp == r.stack_pointer
        applies == red_zone_applies(sp, r.original_stack_pointer)
        c == corrected_size_of(applies, size, rz).val
        new == new_stack_pointer(sp, c).val
    IN  IF underflow_guard(sp, c)
           \/ (c < 0 /\ overflow_guard(sp, ISizeNeg(c).val))
        THEN Outcome("bad_address", r, NoWord, c, applies, FALSE)
        ELSE Outcome("ok",
                     [r EXCEPT !.stack_pointer = new,
                               !.original_stack_pointer = new],
                     new, c, applies, FALSE)

\* fn alloc_mem(&mut self, size: isize) -> Result<Word>
\* The outcome of one call on register set r: "ok" (Ok(ret)),
\* "bad_address" (Err(Error::bad_address(BadAddressMsg))) or "panic"
\* (an arithmetic overflow in a build with overflow checks), the register
\* set after the call, and what the call computed on the way.
alloc_mem(r, size, build, rz) ==
    LET sp == r.stack_pointer
        applies == red_zone_applies(sp, r.original_stack_pointer)
        add == corrected_size_of(applies, size, rz)
    IN  IF add.overflow /\ build = "debug"
        THEN Outcome("panic", r, NoWord, NoSize, applies, TRUE)
        ELSE
        LET c == add.val
            neg == ISizeNeg(c)
            under == underflow_guard(sp, c)
        IN  IF under
            THEN Outcome("bad_address", r, NoWord, c, applies, add.overflow)
            ELSE IF c < 0 /\ neg.overflow /\ build = "debug"
            THEN Outcome("panic", r, NoWord, c, applies, TRUE)
            ELSE IF c < 0 /\ overflow_guard(sp, neg.val)
            THEN Outcome("bad_address", r, NoWord, c, applies,
                         add.overflow \/ neg.overflow)
            ELSE
            LET new == new_stack_pointer(sp, c)
                ovf == add.overflow \/ (c <= 0 /\ neg.overflow) \/ new.overflow
            IN  IF build = "debug" /\ ((c <= 0 /\ neg.overflow) \/ new.overflow)
                THEN Outcome("panic", r, NoWord, c, applies, TRUE)
                ELSE Outcome("ok", [r EXCEPT !.stack_pointer = new.val],
                             new.val, c, applies, ovf)

\* Stack pointers captured at a trap: around zero, around the red zone,
\* the values of the tests, around the middle and the top of the address space.
StartPointers ==
    {0, 1, 120, RED_ZONE_SIZE_X86_64, RED_ZONE_SIZE_X86_64 + 1, 100000,
     ISIZE_MAX, USIZE_MAX - 120, USIZE_MAX - 1, USIZE_MAX}

\* Requested sizes: zero, small and test values of both signs, and the
\* values at and near the ends of isize.
Sizes ==
    {0, 1, 0 - 1, RED_ZONE_SIZE_X86_64, 0 - RED_ZONE_SIZE_X86_64, 7575, 0 - 7575,
     ISIZE_MAX, ISIZE_MAX - RED_ZONE_SIZE_X86_64, ISIZE_MIN, ISIZE_MIN + 1}

Pids == {1, 2}

VARIABLES
    regs,   \* the Registers value: pid, stack_pointer, original_stack_pointer
    arch,   \* the target architecture the crate was compiled for
    build,  \* whether the crate was compiled with overflow checks
    hist    \* the alloc_mem calls made on regs so far, oldest first

vars == <<regs, arch, build, hist>>

\* Registers::from(pid, raw_regs): stack_pointer and the original registers'
\* stack pointer both start as the captured one.
RegistersFrom(pid, sp) ==
    [pid |-> pid, stack_pointer |-> sp, original_stack_pointer |-> sp]

Init ==
    /\ arch \in Archs
    /\ build \in Builds
    /\ \E pid \in Pids, sp \in StartPointers : regs = RegistersFrom(pid, sp)
    /\ hist = << >>

Panicked == Len(hist) > 0 /\ hist[Len(hist)].result = "panic"

CallRecord(size, before, out) ==
    [size |-> size, before |-> before, after |-> out.regs,
     result |-> out.result,
     msg |-> IF out.result = "bad_address" THEN BadAddressMsg ELSE "",
     ret |-> out.ret, corrected |-> out.corrected,
     rz_added |-> out.rz_added, overflow |-> out.overflow]

\* One call regs.alloc_mem(size).
AllocMem(size) ==
    /\ Len(hist) < MaxCalls
    /\ ~Panicked
    /\ LET out == alloc_mem(regs, size, build, RED_ZONE_SIZE(arch))
       IN  /\ regs' = out.regs
           /\ hist' = Append(hist, CallRecord(size, regs, out))
    /\ UNCHANGED <<arch, build>>

Next == \E size \in Sizes : AllocMem(size)

Spec == Init /\ [][Next]_vars


(***************************************************************************)
(* Vocabulary of the properties.                                           *)
(***************************************************************************)
Calls == 1..Len(hist)

RedZone == RED_ZONE_SIZE(arch)

AtOriginal(r) == r.stack_pointer = r.original_stack_pointer

\* The corrected size as an integer: size, plus the red zone when the call
\* is made with stack_pointer = original_stack_pointer.
MathCorrected(h) == h.size + (IF AtOriginal(h.before) THEN RedZone ELSE 0)

Abs(x) == IF x < 0 THEN 0 - x ELSE x

\* The overflow/underflow guard, on integers.
MathGuard(sp, c) ==
    \/ (c > 0 /\ sp <= c)
    \/ (c < 0 /\ sp >= USIZE_MAX - Abs(c))

RECURSIVE SumSizes(_)
SumSizes(n) == IF n = 0 THEN 0 ELSE hist[n].size + SumSizes(n - 1)

\* C1: every call on which the guard does not trigger succeeds, leaves
\* stack_pointer = old stack_pointer - corrected_size (an address, computed
\* without wraparound; corrected_size = size + RED_ZONE_SIZE when the call is
\* made at the original stack pointer, else size) and returns that value.
C1_AllocSucceedsOutsideGuard ==
    \A i \in Calls :
        LET h == hist[i]
            c == MathCorrected(h)
            sp == h.before.stack_pointer
        IN  ~MathGuard(sp, c) =>
                /\ h.result = "ok"
                /\ h.after.stack_pointer = sp - c
                /\ h.ret = sp - c

\* C2: a call that returns an error returns the bad-address error with its
\* message and leaves the register set exactly as it was; a call that does
\* not return at all leaves it as it was too.
C2_FailureLeavesRegisters ==
    \A i \in Calls :
        LET h == hist[i]
        IN  h.result # "ok" =>
                /\ h.after = h.before
                /\ h.ret = NoWord
                /\ (h.result = "bad_address" => h.msg = BadAddressMsg)

\* The failing case of test_mem_alloc_overflow: 7575 requested from 120.
C2_Witness ==
    /\ \E i \in Calls :
            /\ hist[i].result = "bad_address"
            /\ hist[i].size = 7575
            /\ hist[i].before.stack_pointer = 120
            /\ regs.stack_pointer = 120
    /\ Len(hist) >= 1

\* C3: a call fails exactly when its corrected size c has
\* (c > 0 and stack_pointer <= c) or (c < 0 and stack_pointer >= MAX - |c|):
\* it returns the error only then, it does not succeed then, and with c = 0
\* it succeeds and leaves stack_pointer unchanged.
C3_FailsExactlyOnGuard ==
    \A i \in Calls :
        LET h == hist[i]
            c == MathCorrected(h)
            sp == h.before.stack_pointer
        IN  /\ h.result = "bad_address" => MathGuard(sp, c)
            /\ MathGuard(sp, c) => h.result # "ok"
            /\ c = 0 => (h.result = "ok" /\ h.after.stack_pointer = sp)

RedZoneCalls == {i \in Calls : hist[i].rz_added}

\* C4 as stated: over any sequence of calls on one register set, successful
\* or failing, the red zone is added in at most one call.
C4_RedZoneAtMostOnce == Cardinality(RedZoneCalls) <= 1

\* No call but the last one leaves stack_pointer equal to
\* original_stack_pointer (whether the calls succeed or fail).
NoEarlierCallLeavesOriginal ==
    \A i \in Calls : i < Len(hist) => ~AtOriginal(hist[i].after)

\* C4 as amended: over any sequence of calls, successful or failing, in
\* which no call but the last leaves stack_pointer equal to
\* original_stack_pointer, the red zone is added in at most one call, the
\* first.
C4_RedZoneOnceWhileAway ==
    NoEarlierCallLeavesOriginal => RedZoneCalls \subseteq {1}

\* A first call that adds the red zone, a call that fails away from the
\* original stack pointer, and a successful call after it.
C4_Witness ==
    /\ arch = "x86_64"
    /\ Len(hist) >= 3
    /\ NoEarlierCallLeavesOriginal
    /\ hist[1].result = "ok"
    /\ hist[1].rz_added
    /\ hist[1].corrected = hist[1].size + RED_ZONE_SIZE_X86_64
    /\ hist[2].result = "bad_address"
    /\ ~AtOriginal(hist[2].before)
    /\ hist[3].result = "ok"
    /\ hist[3].corrected = hist[3].size
    /\ hist[3].size # 0

\* C5: in each call the red zone constant of the architecture is added to
\* the requested size if and only if stack_pointer = original_stack_pointer
\* when the call is made; otherwise the requested size is used as it is.
\* (The addition is the machine's isize addition.)
C5_RedZoneIffAtOriginal ==
    \A i \in Calls :
        LET h == hist[i]
        IN  /\ h.rz_added <=> AtOriginal(h.before)
            /\ (~AtOriginal(h.before)) => h.corrected = h.size
            /\ (AtOriginal(h.before) /\ h.corrected # NoSize) =>
                    h.corrected = WrapISize(h.size + RedZone)
            /\ h.corrected = NoSize => (AtOriginal(h.before) /\ h.result = "panic")

C5_Witness ==
    /\ arch = "x86_64"
    /\ \E i, j \in Calls :
            /\ AtOriginal(hist[i].before)
            /\ hist[i].corrected = hist[i].size + 128
            /\ ~AtOriginal(hist[j].before)
            /\ hist[j].size # 0
            /\ hist[j].corrected = hist[j].size

\* C6 as stated: a request of size 0 succeeds and returns the stack pointer
\* unchanged, whatever the stack pointer is.
C6_ZeroIsNoOp ==
    \A i \in Calls :
        LET h == hist[i]
        IN  h.size = 0 =>
                /\ h.result = "ok"
                /\ h.ret = h.before.stack_pointer
                /\ h.after = h.before

\* C6 as amended: a request of size 0 made when stack_pointer differs from
\* original_stack_pointer, or on an architecture whose red zone is 0,
\* succeeds and returns the stack pointer unchanged, whatever its value.
C6_ZeroIsNoOpAwayFromOriginal ==
    \A i \in Calls :
        LET h == hist[i]
        IN  (h.size = 0 /\ (~AtOriginal(h.before) \/ RedZone = 0)) =>
                /\ h.result = "ok"
                /\ h.ret = h.before.stack_pointer
                /\ h.after = h.before

C6_Witness ==
    /\ arch = "x86_64"
    /\ \E i \in Calls :
            /\ hist[i].size = 0
            /\ ~AtOriginal(hist[i].before)
            /\ hist[i].result = "ok"
            /\ hist[i].ret = regs.stack_pointer

\* C7: no step changes original_stack_pointer or the process identifier,
\* and stack_pointer changes only in a step that is a successful call.
C7_OnlyStackPointerMoves ==
    [][ /\ regs'.original_stack_pointer = regs.original_stack_pointer
        /\ regs'.pid = regs.pid
        /\ (regs'.stack_pointer # regs.stack_pointer =>
                /\ Len(hist') = Len(hist) + 1
                /\ hist'[Len(hist')].result = "ok") ]_vars

C7_Witness ==
    \E i, j \in Calls :
        /\ hist[i].result = "ok"
        /\ hist[i].after.stack_pointer # hist[i].before.stack_pointer
        /\ hist[i].after.original_stack_pointer = regs.original_stack_pointer
        /\ hist[j].result = "bad_address"

\* C8: every call, for every isize size and every stack pointer, yields a
\* success or the bad-address error, and neither size + RED_ZONE_SIZE nor
\* -corrected_size overflows the signed word.
C8_Total ==
    \A i \in Calls :
        /\ hist[i].result \in {"ok", "bad_address"}
        /\ ~hist[i].overflow

AllPositiveOk ==
    \A i \in Calls : hist[i].size > 0 /\ hist[i].result = "ok"

\* C9: from a fresh register set, after successful calls with strictly
\* positive sizes the stack pointer has strictly decreased at every call,
\* every returned address is >= 1 and the final stack_pointer is
\* p0 - (s1 + ... + sn) - RED_ZONE_SIZE.
C9_PositiveAllocationsDescend ==
    (Len(hist) >= 1 /\ AllPositiveOk) =>
        /\ \A i \in Calls :
                /\ hist[i].after.stack_pointer < hist[i].before.stack_pointer
                /\ hist[i].ret >= 1
        /\ regs.stack_pointer =
                regs.original_stack_pointer - SumSizes(Len(hist)) - RedZone

UndoPair(i) ==
    LET h == hist[i]
        g == hist[i + 1]
        p == h.before.stack_pointer
    IN  /\ 0 < p /\ p < USIZE_MAX
        /\ ~AtOriginal(h.before)
        /\ h.size # ISIZE_MIN
        /\ h.result = "ok"
        /\ ~AtOriginal(h.after)
        /\ g.size = 0 - h.size

\* C10: when a call alloc_mem(s) made at 0 < p < MAX, p # original, succeeds
\* and leaves stack_pointer # original, the call alloc_mem(-s) that follows
\* it succeeds and returns p, restoring the stack pointer.
C10_UndoRoundTrip ==
    \A i \in Calls :
        (i < Len(hist) /\ UndoPair(i)) =>
            /\ hist[i + 1].result = "ok"
            /\ hist[i + 1].ret = hist[i].before.stack_pointer
            /\ hist[i + 1].after = hist[i].before

C10_Witness ==
    \E i \in Calls :
        /\ i < Len(hist)
        /\ UndoPair(i)
        /\ hist[i].size = 0 - 7575
        /\ hist[i + 1].ret = hist[i].before.stack_pointer
        /\ regs.stack_pointer = hist[i].before.stack_pointer

====
